---- MODULE Spec2Model ----
(***************************************************************************)
(* Face indexing and search of one event (collection): the indexing        *)
(* workers of app.py, the entry points of services/indexing_service.py,    *)
(* the checkpoint ledger, the Drive change token, the task registry and    *)
(* the encoding cache.                                                     *)
(*                                                                         *)
(* The remote folder holds the photos 1..nRemote; photo p is the p-th      *)
(* entry of the Drive change feed.  A page token k > 0 says "the next      *)
(* change to read is entry k"; 0 is the NULL drive_page_token.             *)
(***************************************************************************)
EXTENDS Integers, Sequences, FiniteSets, TLC

\* ---------------------------------------------------------------- bounds
\* Photo ids; the folders of the concurrent specifications hold at most
\* MaxFolder photos, the folder of SpecResume up to NAssets.
NAssets == 3
MaxFolder == 2
\* The photos one page of files().list holds in a full run (pageSize, scaled).
PageSize == 2
MaxTasks == 2
MaxDisturbances == 1
NSearchers == 2

Assets == 1..NAssets
Tasks == 1..MaxTasks
Searchers == 1..NSearchers

\* Threads calling methods of one Task object, update_progress calls, the
\* largest progress and total passed, and the last tick of the clock.
NCallers == 2
MaxUpdates == 2
MaxProgress == 2
MaxTotal == 3
MaxTime == 4

\* Face rows of one cache entry, the largest distance (or similarity) a row
\* can have, and the query vectors of one batch.
MaxRows == 3
MaxScore == 2
NQueries == 2

Callers == 1..NCallers
Worker == 1

VARIABLES
    nRemote,        \* photos now in the Drive folder: 1..nRemote
    fate,           \* what happens to a photo in the pipeline ("any": every outcome is possible)
    status,         \* events.indexing_status
    taskRef,        \* events.task_id (0: NULL)
    token,          \* events.drive_page_token (0: NULL)
    indexedPhotos,  \* events.indexed_photos
    totalFaces,     \* events.total_faces
    faces,          \* committed rows of table faces, per photo
    ckpt,           \* committed rows of indexing_checkpoints, per photo: their faces_found
    nTasks,         \* tasks created so far (task ids are never reused)
    tasks,          \* the in-memory task store
    workers,        \* the indexing thread of each task: position and locals
    cache,          \* encoding_cache[event_id]
    search,         \* a search request inside get_cached_encodings
    nDisturbed,     \* pause requests, reset requests and process restarts so far
    tk,             \* one Task object: its fields
    lock,           \* the Task's lock: 0 when free, else the caller holding it
    calls,          \* the method call each caller is in
    nUpdates,       \* update_progress calls made so far
    now,            \* the clock
    snap,           \* the dict the last to_dict call returned
    stored,         \* a cache entry's photo_ids, one per face row
    score,          \* score[q][i]: distance (or similarity) of row i to query vector q
    tol,            \* the tolerance (or threshold) of the search
    found,          \* what the last matcher call returned
    dl,             \* one call of a download function
    reported        \* the photos the last check_new_photos reply counted as new

objVars == <<tk, lock, calls, nUpdates, now, snap>>

matchVars == <<stored, score, tol, found>>

auxVars == <<dl, reported>>

vars == <<nRemote, fate, status, taskRef, token, indexedPhotos, totalFaces, faces,
          ckpt, nTasks, tasks, workers, cache, search, nDisturbed, objVars, matchVars, auxVars>>

\* ------------------------------------------------------------- helpers
Zero == [a \in Assets |-> 0]

RECURSIVE SumOver(_, _)
SumOver(f, S) ==
    IF S = {} THEN 0
    ELSE LET a == CHOOSE x \in S : TRUE IN f[a] + SumOver(f, S \ {a})

MinOf(S) == CHOOSE x \in S : \A y \in S : x <= y

Plus(f, g) == [a \in Assets |-> f[a] + g[a]]

\* Extractor: the faces a photo shows (a property of the photo's content).
FacesIn(a) == IF a % 3 = 0 THEN 0 ELSE a % 3

Outcomes == {"ok", "dlfail", "exfail", "dbfail", "ckfail"}

\* The outcomes photo a can have: a persistence failure needs a row to fail on.
OutcomesFor(a) ==
    {o \in (IF fate[a] = "any" THEN Outcomes ELSE {fate[a]}) :
        o = "dbfail" => FacesIn(a) > 0}

\* Rows inserted for photo a before the pipeline ends with outcome o; a failing
\* INSERT is the last one.
Inserted(o, a) ==
    CASE o = "ok" -> FacesIn(a)
      [] o = "ckfail" -> FacesIn(a)
      [] o = "dbfail" -> FacesIn(a) - 1
      [] OTHER -> 0

\* ------------------------------------------------------ checkpoint ledger
CkptIds == {a \in Assets : Len(ckpt[a]) > 0}

\* get_checkpoints: {photo_id: faces_found}; a later row of a photo replaces an earlier.
GetCheckpoints == [a \in Assets |-> IF Len(ckpt[a]) > 0 THEN ckpt[a][Len(ckpt[a])] ELSE 0]

\* get_indexed_photo_ids: SELECT DISTINCT photo_id FROM faces
IndexedIds == {a \in Assets : faces[a] > 0}

\* The photos of the folder
ListFiles == 1..nRemote

\* files().list(pageSize=...).execute(): the first page of the listing; the
\* full runs never ask for a second page.
FirstPage == {a \in ListFiles : a <= PageSize}

\* getStartPageToken: the position after the last change
StartPageToken == nRemote + 1

\* ------------------------------------------------------------ task store
\* History kept with a worker: out[a], how this run's pipeline ended for photo a,
\* and ins[a], the rows of a this run inserted (tx[a] of them not yet committed).
\* progress and total are what the thread last passed to task.update_progress.
NoOutcome == [a \in Assets |-> "none"]

NoTask == [status |-> "none", error |-> "none"]

NoWorker ==
    [pc |-> "none", variant |-> "none", mode |-> "none", processed |-> {}, todo |-> {},
     total |-> 0, indexed |-> 0, nfaces |-> 0, tx |-> Zero, out |-> NoOutcome,
     ins |-> Zero, progress |-> 0]

NewWorker(v, m) == [NoWorker EXCEPT !.pc = "start", !.variant = v, !.mode = m]

\* A worker past its last photo: the loop's locals are dead.
Ended(w, pc) ==
    [NoWorker EXCEPT !.pc = pc, !.variant = w.variant, !.mode = w.mode, !.total = w.total,
                     !.progress = w.progress]

Active(t) == workers[t].pc \notin {"none", "done"}

\* The photos worker t has put through the pipeline in this run.
Did(t) == {a \in Assets : workers[t].out[a] # "none"}

NoEntry == [present |-> FALSE, rows |-> Zero]

IdleSearch == [pc |-> "idle", rows |-> Zero]

\* ------------------------------------------------------------ class Task
NoEta == [has |-> FALSE, v |-> 0]

NoSnap == [status |-> "none", progress |-> 0, total |-> 0, current_item |-> 0,
           faces_found |-> 0, started_at |-> 0, eta |-> NoEta, at |-> 0,
           by |-> [progress |-> 0, total |-> 0]]

IdleCall == [m |-> "idle", pc |-> 0, u |-> 0, progress |-> 0, total |-> 0, acc |-> NoSnap]

\* Task.__init__: status 'pending', progress 0, total 0, current_item None,
\* faces_found 0, started_at None, a new lock.  by is a ghost: the
\* update_progress call that wrote progress and total (current_item and
\* faces_found hold the number of the call that passed them).
TaskInit ==
    /\ tk = [status |-> "pending", started_at |-> 0, progress |-> 0, total |-> 0,
             current_item |-> 0, faces_found |-> 0,
             by |-> [progress |-> 0, total |-> 0]]
    /\ lock = 0
    /\ calls = [c \in Callers |-> IdleCall]
    /\ nUpdates = 0
    /\ now = 1
    /\ snap = NoSnap

\* int(x / d) for d > 0: the quotient without its fraction, towards zero.
IntOf(x, d) == IF x >= 0 THEN x \div d ELSE -((-x) \div d)

\* to_dict's ETA with the test of the status left out.
EtaWhenStarted(t, at) ==
    IF t.started_at # 0 /\ t.progress > 0
    THEN [has |-> TRUE, v |-> IntOf((at - t.started_at) * (t.total - t.progress), t.progress)]
    ELSE NoEta

\* to_dict: eta_seconds = None; if status == 'running' and started_at and
\* progress > 0: int((elapsed / progress) * (total - progress)).
EtaSeconds(t, at) ==
    IF t.status = "running" /\ t.started_at # 0 /\ t.progress > 0
    THEN [has |-> TRUE, v |-> IntOf((at - t.started_at) * (t.total - t.progress), t.progress)]
    ELSE NoEta

\* ------------------------------------------------------------------ Init
\* ------------------------------------------------------------ downloads
\* max_retries of download_image_temp and the default of
\* download_image_from_drive.
max_retries == 3

\* fails[i]: whether the i-th attempt raises.  tries counts the attempts made,
\* waits lists the sleeps taken.
NoDownload ==
    [pc |-> "idle", fn |-> "none", photo |-> 0, fails |-> <<>>, attempt |-> 0,
     tries |-> 0, waits |-> <<>>, result |-> "none"]

\* A failed attempt is always followed by a sleep.
AlwaysRetries(attempt) == TRUE

\* except Exception: if attempt < max_retries - 1: sleep, else: raise.
Retries(attempt) == attempt < max_retries - 1

\* ------------------------------------------------------------ the matcher
NoResult == [fn |-> "none", q |-> 0, matches |-> <<>>]

\* if distance < tolerance: the boundary left out.
Below(distance, tolerance) == distance < tolerance

\* if distance <= tolerance
Within(distance, tolerance) == distance <= tolerance

\* if similarity >= threshold
AtLeast(similarity, threshold) == similarity >= threshold

\* if distance < matching_photos[photo_id]['distance'], never taken.
NeverCloser(distance, kept) == FALSE

\* if distance < matching_photos[photo_id]['distance']
Closer(distance, kept) == distance < kept

\* if similarity > matching_photos[photo_id]['similarity']
MoreSimilar(similarity, kept) == similarity > kept

\* The index of the entry of photo_id in a dict kept in insertion order, 0
\* when photo_id is not in it.
KeyOf(dict, photo_id) ==
    IF \E i \in DOMAIN dict : dict[i].photo_id = photo_id
    THEN CHOOSE i \in DOMAIN dict : dict[i].photo_id = photo_id
    ELSE 0

\* for idx, distance in enumerate(distances): the matching_photos dict after
\* the rows 1..idx.
RECURSIVE MatchingPhotos(_, _, _, _)
MatchingPhotos(photo_ids, distances, tolerance, idx) ==
    IF idx = 0 THEN <<>>
    ELSE LET before == MatchingPhotos(photo_ids, distances, tolerance, idx - 1)
             k == KeyOf(before, photo_ids[idx])
         IN  IF ~Within(distances[idx], tolerance) THEN before
             ELSE IF k = 0
                  THEN Append(before, [photo_id |-> photo_ids[idx], distance |-> distances[idx]])
                  ELSE IF Closer(distances[idx], before[k].distance)
                       THEN [before EXCEPT ![k].distance = distances[idx]]
                       ELSE before

\* The same loop of find_matches_cosine.
RECURSIVE MatchingPhotosCosine(_, _, _, _)
MatchingPhotosCosine(photo_ids, similarities, threshold, idx) ==
    IF idx = 0 THEN <<>>
    ELSE LET before == MatchingPhotosCosine(photo_ids, similarities, threshold, idx - 1)
             k == KeyOf(before, photo_ids[idx])
         IN  IF ~AtLeast(similarities[idx], threshold) THEN before
             ELSE IF k = 0
                  THEN Append(before, [photo_id |-> photo_ids[idx], similarity |-> similarities[idx]])
                  ELSE IF MoreSimilar(similarities[idx], before[k].similarity)
                       THEN [before EXCEPT ![k].similarity = similarities[idx]]
                       ELSE before

\* x put into a list already in order, after every entry that does not come
\* after it: list.sort is stable.
InsertByDistance(sorted, x) ==
    LET n == Cardinality({i \in DOMAIN sorted : sorted[i].distance <= x.distance})
    IN  SubSeq(sorted, 1, n) \o <<x>> \o SubSeq(sorted, n + 1, Len(sorted))

InsertBySimilarity(sorted, x) ==
    LET n == Cardinality({i \in DOMAIN sorted : sorted[i].similarity >= x.similarity})
    IN  SubSeq(sorted, 1, n) \o <<x>> \o SubSeq(sorted, n + 1, Len(sorted))

\* The list as it is, without the sort.
Unsorted(matches) == matches

\* matches.sort(key=lambda x: x['distance'])
RECURSIVE SortByDistance(_)
SortByDistance(matches) ==
    IF matches = <<>> THEN <<>>
    ELSE InsertByDistance(SortByDistance(SubSeq(matches, 1, Len(matches) - 1)),
                          matches[Len(matches)])

\* matches.sort(key=lambda x: x['similarity'], reverse=True)
RECURSIVE SortBySimilarity(_)
SortBySimilarity(matches) ==
    IF matches = <<>> THEN <<>>
    ELSE InsertBySimilarity(SortBySimilarity(SubSeq(matches, 1, Len(matches) - 1)),
                            matches[Len(matches)])

\* find_matches: the 'matches' of the dict it returns.
find_matches(photo_ids, distances, tolerance) ==
    SortByDistance(MatchingPhotos(photo_ids, distances, tolerance, Len(photo_ids)))

\* find_matches_cosine: the 'matches' of the dict it returns.
find_matches_cosine(photo_ids, similarities, threshold) ==
    SortBySimilarity(MatchingPhotosCosine(photo_ids, similarities, threshold, Len(photo_ids)))

\* batch_find_matches with a first match of a photo never replaced.
MergeKeepingFirst(all_matches, match) ==
    IF KeyOf(all_matches, match.photo_id) = 0 THEN Append(all_matches, match) ELSE all_matches

\* batch_find_matches, for match in result['matches']: a new photo is added,
\* a known one replaced when the new distance is smaller.
Merge(all_matches, match) ==
    LET k == KeyOf(all_matches, match.photo_id)
    IN  IF k = 0 THEN Append(all_matches, match)
        ELSE IF match.distance < all_matches[k].distance
             THEN [all_matches EXCEPT ![k] = match]
             ELSE all_matches

RECURSIVE MergeAll(_, _, _)
MergeAll(all_matches, matches, n) ==
    IF n = 0 THEN all_matches
    ELSE Merge(MergeAll(all_matches, matches, n - 1), matches[n])

\* for i, encoding in enumerate(search_encodings): all_matches after the
\* first n query vectors.
RECURSIVE AllMatches(_, _, _, _)
AllMatches(photo_ids, distances, tolerance, n) ==
    IF n = 0 THEN <<>>
    ELSE LET result == find_matches(photo_ids, distances[n], tolerance)
         IN  MergeAll(AllMatches(photo_ids, distances, tolerance, n - 1), result, Len(result))

\* batch_find_matches: the 'all_matches' of the dict it returns, for the
\* first n query vectors.
batch_find_matches(photo_ids, distances, tolerance, n) ==
    SortByDistance(AllMatches(photo_ids, distances, tolerance, n))

\* No search is under way.
MatchIdle ==
    /\ stored = <<>>
    /\ score = <<>>
    /\ tol = 0
    /\ found = NoResult

InitEvent ==
    /\ status = "Not Started"
    /\ taskRef = 0
    /\ token = 0
    /\ indexedPhotos = 0
    /\ totalFaces = 0
    /\ faces = Zero
    /\ ckpt = [a \in Assets |-> <<>>]
    /\ nTasks = 0
    /\ tasks = [t \in Tasks |-> NoTask]
    /\ workers = [t \in Tasks |-> NoWorker]
    /\ cache = NoEntry
    /\ search = [s \in Searchers |-> IdleSearch]
    /\ nDisturbed = 0

InitCommon ==
    /\ InitEvent
    /\ TaskInit
    /\ MatchIdle
    /\ dl = NoDownload
    /\ reported = {}

Init ==
    /\ InitCommon
    /\ nRemote \in 0..MaxFolder
    /\ fate = [a \in Assets |-> "any"]


\* ------------------------------------------------------- the remote store
\* A photo is uploaded to the folder (one more entry of the change feed).
AddAsset ==
    /\ nRemote < MaxFolder
    /\ nRemote' = nRemote + 1
    /\ UNCHANGED <<fate, status, taskRef, token, indexedPhotos, totalFaces, faces, ckpt,
                   nTasks, tasks, workers, cache, search, nDisturbed>>
    /\ UNCHANGED <<objVars, matchVars, auxVars>>

\* ------------------------------------------------------ request handlers
\* start_indexing: reset a stuck event, create the task, invalidate the cache,
\* set In Progress with the task id, start the thread.
StartIndexing ==
    /\ status # "Deleted"
    /\ nTasks < MaxTasks
    /\ LET t == nTasks + 1 IN
        /\ nTasks' = t
        /\ tasks' = [tasks EXCEPT ![t] = [status |-> "pending", error |-> "none"]]
        /\ cache' = NoEntry
        /\ status' = "In Progress"
        /\ taskRef' = t
        /\ workers' = [workers EXCEPT ![t] = NewWorker("app", "full")]
    /\ UNCHANGED <<nRemote, fate, token, indexedPhotos, totalFaces, faces, ckpt, search,
                   nDisturbed>>
    /\ UNCHANGED <<objVars, matchVars, auxVars>>

\* start_incremental_indexing: create the task, set In Progress, start the thread.
StartIncremental ==
    /\ status # "Deleted"
    /\ nTasks < MaxTasks
    /\ LET t == nTasks + 1 IN
        /\ nTasks' = t
        /\ tasks' = [tasks EXCEPT ![t] = [status |-> "pending", error |-> "none"]]
        /\ status' = "In Progress"
        /\ taskRef' = t
        /\ workers' = [workers EXCEPT ![t] = NewWorker("app", "incr")]
    /\ UNCHANGED <<nRemote, fate, token, indexedPhotos, totalFaces, faces, ckpt, cache,
                   search, nDisturbed>>
    /\ UNCHANGED <<objVars, matchVars, auxVars>>

\* pause_indexing: fail the referenced task, set Paused.
PauseIndexing ==
    /\ status # "Deleted"
    /\ nDisturbed < MaxDisturbances
    /\ nDisturbed' = nDisturbed + 1
    /\ tasks' = IF taskRef # 0 /\ tasks[taskRef].status # "none"
                THEN [tasks EXCEPT ![taskRef] = [status |-> "failed", error |-> "Paused by user"]]
                ELSE tasks
    /\ status' = "Paused"
    /\ UNCHANGED <<nRemote, fate, taskRef, token, indexedPhotos, totalFaces, faces, ckpt,
                   nTasks, workers, cache, search>>
    /\ UNCHANGED <<objVars, matchVars, auxVars>>

\* reset_event: set Failed.
ResetEvent ==
    /\ status # "Deleted"
    /\ nDisturbed < MaxDisturbances
    /\ nDisturbed' = nDisturbed + 1
    /\ status' = "Failed"
    /\ UNCHANGED <<nRemote, fate, taskRef, token, indexedPhotos, totalFaces, faces, ckpt,
                   nTasks, tasks, workers, cache, search>>
    /\ UNCHANGED <<objVars, matchVars, auxVars>>

\* delete_event: DELETE FROM faces, DELETE FROM events, commit.  The connection
\* never enables foreign keys: the checkpoints' ON DELETE CASCADE acts only in
\* an SQLite built with foreign keys on by default.
DeleteEvent ==
    /\ status # "Deleted"
    /\ \E cascade \in BOOLEAN :
        ckpt' = IF cascade THEN [a \in Assets |-> <<>>] ELSE ckpt
    /\ status' = "Deleted"
    /\ faces' = Zero
    /\ taskRef' = 0
    /\ token' = 0
    /\ indexedPhotos' = 0
    /\ totalFaces' = 0
    /\ UNCHANGED <<nRemote, fate, nTasks, tasks, workers, cache, search, nDisturbed>>
    /\ UNCHANGED <<objVars, matchVars, auxVars>>

\* is_stuck without the test of indexing_status.
IsStuckAnyStatus ==
    /\ taskRef # 0
    /\ tasks[taskRef].status \in {"none", "completed", "failed"}

\* get_checkpoint_status: is_stuck, computed from the event row and the task store.
IsStuck ==
    /\ status = "In Progress"
    /\ taskRef # 0
    /\ tasks[taskRef].status \in {"none", "completed", "failed"}

\* get_checkpoint_status: can_resume = checkpoint_count > 0 and
\* indexing_status in ['Not Started', 'Failed'].
CanResume ==
    /\ CkptIds # {}
    /\ status \in {"Not Started", "Failed"}

\* get_checkpoint_status: a read of the checkpoint count, the event row and the
\* referenced task; the reply is built and nothing is written.
GetCheckpointStatus ==
    /\ UNCHANGED <<nRemote, fate, status, taskRef, token, indexedPhotos, totalFaces, faces,
                   ckpt, nTasks, tasks, workers, cache, search, nDisturbed>>
    /\ UNCHANGED <<objVars, matchVars, auxVars>>

\* ------------------------------------------- services entry points (calls)
\* A caller runs services.indexing_service.run_full_indexing on a task it made.
CallRunFull ==
    /\ nTasks < MaxTasks
    /\ LET t == nTasks + 1 IN
        /\ nTasks' = t
        /\ tasks' = [tasks EXCEPT ![t] = [status |-> "pending", error |-> "none"]]
        /\ workers' = [workers EXCEPT ![t] = NewWorker("svc", "full")]
    /\ UNCHANGED <<nRemote, fate, status, taskRef, token, indexedPhotos, totalFaces, faces,
                   ckpt, cache, search, nDisturbed>>
    /\ UNCHANGED <<objVars, matchVars, auxVars>>

\* A caller runs services.indexing_service.run_incremental_indexing.
CallRunIncremental ==
    /\ nTasks < MaxTasks
    /\ LET t == nTasks + 1 IN
        /\ nTasks' = t
        /\ tasks' = [tasks EXCEPT ![t] = [status |-> "pending", error |-> "none"]]
        /\ workers' = [workers EXCEPT ![t] = NewWorker("svc", "incr")]
    /\ UNCHANGED <<nRemote, fate, status, taskRef, token, indexedPhotos, totalFaces, faces,
                   ckpt, cache, search, nDisturbed>>
    /\ UNCHANGED <<objVars, matchVars, auxVars>>

\* --------------------------------------------------------- worker steps
\* task.start()
TaskStart(t) ==
    /\ workers[t].pc = "start"
    /\ tasks' = [tasks EXCEPT ![t].status = "running"]
    /\ workers' = [workers EXCEPT ![t].pc = "load"]
    /\ UNCHANGED <<nRemote, fate, status, taskRef, token, indexedPhotos, totalFaces, faces,
                   ckpt, nTasks, cache, search, nDisturbed>>
    /\ UNCHANGED <<objVars, matchVars, auxVars>>

\* Resume: total_faces = sum(p['faces'] for p in processed_photos.values())
ResumeFaces(processed) == SumOver(GetCheckpoints, processed)

\* Resume: indexed_photos = len(processed_photos)
ResumeIndexed(processed) == Cardinality(processed)

\* Full run: read the checkpoints (resume), list the folder.
LoadFull(t) ==
    /\ workers[t].pc = "load"
    /\ workers[t].mode = "full"
    /\ LET processed == CkptIds
           photos == FirstPage
       IN workers' = [workers EXCEPT ![t].pc = "loop",
                                     ![t].processed = processed,
                                     ![t].nfaces = ResumeFaces(processed),
                                     ![t].indexed = ResumeIndexed(processed),
                                     ![t].total = Cardinality(photos),
                                     ![t].progress = ResumeIndexed(processed),
                                     ![t].todo = photos \ processed]
    /\ UNCHANGED <<nRemote, fate, status, taskRef, token, indexedPhotos, totalFaces, faces,
                   ckpt, nTasks, tasks, cache, search, nDisturbed>>
    /\ UNCHANGED <<objVars, matchVars, auxVars>>

\* The photos an incremental run finds: the whole folder without a token, the
\* changes from the token on with one.
DeltaPhotos(tok) == IF tok = 0 THEN ListFiles ELSE {a \in ListFiles : a >= tok}

\* Incremental run: find the new photos and save the new page token; with no
\* new photo the event is Completed at once.
LoadIncremental(t) ==
    /\ workers[t].pc = "load"
    /\ workers[t].mode = "incr"
    /\ LET processed == IndexedIds \cup CkptIds
           new == DeltaPhotos(token) \ processed
       IN /\ token' = StartPageToken
          /\ IF new = {}
             THEN /\ status' = "Completed"
                  /\ workers' = [workers EXCEPT ![t] = Ended(workers[t], "complete")]
             ELSE /\ status' = status
                  /\ workers' = [workers EXCEPT ![t].pc = "loop",
                                                ![t].processed = processed,
                                                ![t].indexed = indexedPhotos,
                                                ![t].nfaces = totalFaces,
                                                ![t].total = Cardinality(new),
                                                ![t].todo = new]
    /\ UNCHANGED <<nRemote, fate, taskRef, indexedPhotos, totalFaces, faces, ckpt, nTasks,
                   tasks, cache, search, nDisturbed>>
    /\ UNCHANGED <<objVars, matchVars, auxVars>>

\* The change feed rejects the stored token (HTTP 400): take a fresh start token
\* and go on with the photos found so far (none).
LoadTokenExpired(t) ==
    /\ workers[t].pc = "load"
    /\ workers[t].mode = "incr"
    /\ token # 0
    /\ token' = StartPageToken
    /\ status' = "Completed"
    /\ workers' = [workers EXCEPT ![t] = Ended(workers[t], "complete")]
    /\ UNCHANGED <<nRemote, fate, taskRef, indexedPhotos, totalFaces, faces, ckpt, nTasks,
                   tasks, cache, search, nDisturbed>>
    /\ UNCHANGED <<objVars, matchVars, auxVars>>

\* A failure handler that also deletes the event's checkpoints.
LoadFailsClearing(t) ==
    /\ workers[t].pc = "load"
    /\ tasks' = [tasks EXCEPT ![t] = [status |-> "failed", error |-> "error"]]
    /\ status' = "Failed"
    /\ ckpt' = [a \in Assets |-> <<>>]
    /\ workers' = [workers EXCEPT ![t] = Ended(workers[t], "done")]
    /\ UNCHANGED <<nRemote, fate, taskRef, token, indexedPhotos, totalFaces, faces,
                   nTasks, cache, search, nDisturbed>>
    /\ UNCHANGED <<objVars, matchVars, auxVars>>

\* A Drive call of the load phase raises: the run's handler fails the task,
\* sets Failed and commits.
LoadFails(t) ==
    /\ workers[t].pc = "load"
    /\ tasks' = [tasks EXCEPT ![t] = [status |-> "failed", error |-> "error"]]
    /\ status' = "Failed"
    /\ workers' = [workers EXCEPT ![t] = Ended(workers[t], "done")]
    /\ UNCHANGED <<nRemote, fate, taskRef, token, indexedPhotos, totalFaces, faces, ckpt,
                   nTasks, cache, search, nDisturbed>>
    /\ UNCHANGED <<objVars, matchVars, auxVars>>

\* A Drive call of the load phase raises and, in the run's handler, the UPDATE
\* that sets Failed (or its commit) raises too: task.fail has been called, the
\* exception leaves the thread, the event row is as it was.
HandlerUpdateFails(t) ==
    /\ workers[t].pc = "load"
    /\ tasks' = [tasks EXCEPT ![t] = [status |-> "failed", error |-> "error"]]
    /\ workers' = [workers EXCEPT ![t] = Ended(workers[t], "done")]
    /\ UNCHANGED <<nRemote, fate, status, taskRef, token, indexedPhotos, totalFaces, faces,
                   ckpt, nTasks, cache, search, nDisturbed>>
    /\ UNCHANGED <<objVars, matchVars, auxVars>>

\* run_full_indexing / run_incremental_indexing called with credentials that
\* lack a required field: after task.start() the run fails the task, sets the
\* event Failed, commits and returns.  (The web handlers test the same fields
\* before they start a thread, so their threads never take this branch.)
CredentialsIncomplete(t) ==
    /\ workers[t].pc = "load"
    /\ workers[t].variant = "svc"
    /\ tasks' = [tasks EXCEPT ![t] = [status |-> "failed", error |-> "credentials"]]
    /\ status' = "Failed"
    /\ workers' = [workers EXCEPT ![t] = Ended(workers[t], "done")]
    /\ UNCHANGED <<nRemote, fate, taskRef, token, indexedPhotos, totalFaces, faces, ckpt,
                   nTasks, cache, search, nDisturbed>>
    /\ UNCHANGED <<objVars, matchVars, auxVars>>

\* Whether the per-photo pipeline, ending with outcome o, counts the photo
\* (indexed_photos += 1 and the faces inserted so far).  app.py counts on every
\* path; the services loop counts only when index_single_photo returns.
Counted(v, o) == IF v = "app" THEN TRUE ELSE o \in {"ok", "exfail", "ckfail"}

\* Whether it reaches save_checkpoint and the INSERT succeeds.  app.py: the
\* ImageProcessingError branch continues before it, every other exception is
\* caught before it.  services: only when index_single_photo returns.
Checkpointed(v, o) ==
    IF v = "app" THEN o \in {"ok", "dlfail", "dbfail"} ELSE o \in {"ok", "exfail"}

\* Counters that are not updated after a failed checkpoint write.
UpdatesCountersUnlessCkfail(v, o) ==
    IF v = "app" THEN o \notin {"exfail", "ckfail"} ELSE o \in {"ok", "exfail"}

\* Whether the UPDATE of the event's counters follows.
UpdatesCounters(v, o) ==
    IF v = "app" THEN o # "exfail" ELSE o \in {"ok", "exfail", "ckfail"}

\* Where the worker goes after the photo: every exception of the pipeline is
\* caught inside the loop body, which goes on to the counter update or straight
\* to the next photo.
NextPc(v, o) == IF UpdatesCounters(v, o) THEN "counter" ELSE "loop"

\* task.update_progress at the top of the loop body: indexed_photos in a full
\* run, the index i of the photo among the new ones in an incremental run.
Progress(w) == IF w.mode = "full" THEN w.indexed ELSE w.total - Cardinality(w.todo)

\* One photo through the pipeline: update_progress, download, extract, INSERT the faces,
\* save_checkpoint (its commit makes the pending INSERTs durable too).
ProcessPhoto(t) ==
    /\ workers[t].pc = "loop"
    /\ workers[t].todo # {}
    /\ LET w == workers[t]
           a == MinOf(w.todo)
       IN \E o \in OutcomesFor(a) :
            LET k == Inserted(o, a)
                tx1 == [w.tx EXCEPT ![a] = @ + k]
                saved == Checkpointed(w.variant, o)
                w1 == [w EXCEPT !.todo = @ \ {a},
                                !.indexed = IF Counted(w.variant, o) THEN @ + 1 ELSE @,
                                !.nfaces = IF Counted(w.variant, o) THEN @ + k ELSE @,
                                !.tx = IF saved THEN Zero ELSE tx1,
                                !.pc = NextPc(w.variant, o),
                                !.progress = Progress(w),
                                !.out = [@ EXCEPT ![a] = o],
                                !.ins = [@ EXCEPT ![a] = @ + k]]
            IN /\ workers' = [workers EXCEPT ![t] = w1]
               /\ faces' = IF saved THEN Plus(faces, tx1) ELSE faces
               /\ ckpt' = IF saved THEN [ckpt EXCEPT ![a] = Append(@, k)] ELSE ckpt
    /\ UNCHANGED <<nRemote, fate, status, taskRef, token, indexedPhotos, totalFaces, nTasks,
                   tasks, cache, search, nDisturbed>>
    /\ UNCHANGED <<objVars, matchVars, auxVars>>

\* UPDATE events SET indexed_photos, total_faces; commit.
UpdateCounters(t) ==
    /\ workers[t].pc = "counter"
    /\ indexedPhotos' = workers[t].indexed
    /\ totalFaces' = workers[t].nfaces
    /\ faces' = Plus(faces, workers[t].tx)
    /\ workers' = [workers EXCEPT ![t].pc = "loop", ![t].tx = Zero]
    /\ UNCHANGED <<nRemote, fate, status, taskRef, token, ckpt, nTasks, tasks, cache, search,
                   nDisturbed>>
    /\ UNCHANGED <<objVars, matchVars, auxVars>>

\* The UPDATE of the counters or its commit raises (the database is locked by
\* another connection, the disk is full).  services: the statement is inside the
\* photo's try, the loop goes on.  app.py: it is outside, the exception reaches
\* the run's handler, which fails the task, sets Failed and commits.
UpdateCountersFails(t) ==
    /\ workers[t].pc = "counter"
    /\ IF workers[t].variant = "app"
       THEN /\ tasks' = [tasks EXCEPT ![t] = [status |-> "failed", error |-> "error"]]
            /\ status' = "Failed"
            /\ faces' = Plus(faces, workers[t].tx)
            /\ workers' = [workers EXCEPT ![t] = Ended(workers[t], "done")]
       ELSE /\ workers' = [workers EXCEPT ![t].pc = "loop"]
            /\ UNCHANGED <<tasks, status, faces>>
    /\ UNCHANGED <<nRemote, fate, taskRef, token, indexedPhotos, totalFaces, ckpt, nTasks,
                   cache, search, nDisturbed>>
    /\ UNCHANGED <<objVars, matchVars, auxVars>>

\* After the last photo: UPDATE events SET indexing_status = 'Completed' and the
\* counters; commit.
FinalUpdate(t) ==
    /\ workers[t].pc = "loop"
    /\ workers[t].todo = {}
    /\ status' = "Completed"
    /\ indexedPhotos' = workers[t].indexed
    /\ totalFaces' = workers[t].nfaces
    /\ faces' = Plus(faces, workers[t].tx)
    /\ workers' = [workers EXCEPT ![t].pc = "clear", ![t].tx = Zero]
    /\ UNCHANGED <<nRemote, fate, taskRef, token, ckpt, nTasks, tasks, cache, search, nDisturbed>>
    /\ UNCHANGED <<objVars, matchVars, auxVars>>

\* clear_checkpoints; app.py goes on to invalidate_cache, the services run to
\* task.complete().
ClearCheckpoints(t) ==
    /\ workers[t].pc = "clear"
    /\ ckpt' = [a \in Assets |-> <<>>]
    /\ workers' = [workers EXCEPT ![t] = Ended(workers[t], IF workers[t].variant = "app"
                                                             THEN "inval" ELSE "complete")]
    /\ UNCHANGED <<nRemote, fate, status, taskRef, token, indexedPhotos, totalFaces, faces,
                   nTasks, tasks, cache, search, nDisturbed>>
    /\ UNCHANGED <<objVars, matchVars, auxVars>>

\* invalidate_cache(event_id)
InvalidateCache(t) ==
    /\ workers[t].pc = "inval"
    /\ cache' = NoEntry
    /\ workers' = [workers EXCEPT ![t].pc = "complete"]
    /\ UNCHANGED <<nRemote, fate, status, taskRef, token, indexedPhotos, totalFaces, faces,
                   ckpt, nTasks, tasks, search, nDisturbed>>
    /\ UNCHANGED <<objVars, matchVars, auxVars>>

\* A run that ends by failing its task.
TaskCompleteAsFailed(t) ==
    /\ workers[t].pc = "complete"
    /\ tasks' = [tasks EXCEPT ![t] = [status |-> "failed", error |-> "error"]]
    /\ workers' = [workers EXCEPT ![t] = [Ended(workers[t], "done") EXCEPT !.total = 0, !.progress = 0]]
    /\ UNCHANGED <<nRemote, fate, status, taskRef, token, indexedPhotos, totalFaces, faces,
                   ckpt, nTasks, cache, search, nDisturbed>>
    /\ UNCHANGED <<objVars, matchVars, auxVars>>

\* task.complete(); the thread ends.
TaskComplete(t) ==
    /\ workers[t].pc = "complete"
    /\ tasks' = [tasks EXCEPT ![t].status = "completed"]
    /\ workers' = [workers EXCEPT ![t] = [Ended(workers[t], "done") EXCEPT !.total = 0, !.progress = 0]]
    /\ UNCHANGED <<nRemote, fate, status, taskRef, token, indexedPhotos, totalFaces, faces,
                   ckpt, nTasks, cache, search, nDisturbed>>
    /\ UNCHANGED <<objVars, matchVars, auxVars>>

\* ------------------------------------------------------ check_new_photos
\* check_new_photos: the photos it counts as new, from the whole folder
\* without a token and from the changes after the token with one, less those
\* with a face row or a checkpoint.
NewPhotosSeen(tok) == DeltaPhotos(tok) \ (IndexedIds \cup CkptIds)

\* check_new_photos on a Completed or Paused event: count the new photos and
\* save the page token the Drive API hands back.
CheckNewPhotos ==
    /\ status \in {"Completed", "Paused"}
    /\ reported' = NewPhotosSeen(token)
    /\ token' = StartPageToken
    /\ UNCHANGED <<nRemote, fate, status, taskRef, indexedPhotos, totalFaces, faces, ckpt,
                   nTasks, tasks, workers, cache, search, nDisturbed, dl>>
    /\ UNCHANGED <<objVars, matchVars>>

\* check_new_photos when the API rejects the stored token (HTTP 400): save a
\* fresh start token and reply with no new photo.
CheckNewPhotosTokenExpired ==
    /\ status \in {"Completed", "Paused"}
    /\ token # 0
    /\ reported' = {}
    /\ token' = StartPageToken
    /\ UNCHANGED <<nRemote, fate, status, taskRef, indexedPhotos, totalFaces, faces, ckpt,
                   nTasks, tasks, workers, cache, search, nDisturbed, dl>>
    /\ UNCHANGED <<objVars, matchVars>>

\* ------------------------------------------------ search: the cache load
\* get_cached_encodings, first locked section: a hit returns the entry and
\* changes nothing; a miss goes on to read the database.
SearchMiss(s) ==
    /\ search[s].pc = "idle"
    /\ ~cache.present
    /\ search' = [search EXCEPT ![s] = [pc |-> "read", rows |-> Zero]]
    /\ UNCHANGED <<nRemote, fate, status, taskRef, token, indexedPhotos, totalFaces, faces,
                   ckpt, nTasks, tasks, workers, cache, nDisturbed>>
    /\ UNCHANGED <<objVars, matchVars, auxVars>>

\* SELECT ... FROM faces; no row: return None.
SearchRead(s) ==
    /\ search[s].pc = "read"
    /\ search' = [search EXCEPT ![s] = IF IndexedIds = {} THEN IdleSearch
                                        ELSE [pc |-> "install", rows |-> faces]]
    /\ UNCHANGED <<nRemote, fate, status, taskRef, token, indexedPhotos, totalFaces, faces,
                   ckpt, nTasks, tasks, workers, cache, nDisturbed>>
    /\ UNCHANGED <<objVars, matchVars, auxVars>>

\* Second locked section: encoding_cache[event_id] = cache_data.
SearchInstall(s) ==
    /\ search[s].pc = "install"
    /\ cache' = [present |-> TRUE, rows |-> search[s].rows]
    /\ search' = [search EXCEPT ![s] = IdleSearch]
    /\ UNCHANGED <<nRemote, fate, status, taskRef, token, indexedPhotos, totalFaces, faces,
                   ckpt, nTasks, tasks, workers, nDisturbed>>
    /\ UNCHANGED <<objVars, matchVars, auxVars>>

\* ------------------------------------------- class Task, method by method
\* The calls a thread can make next.  The worker thread calls start() first,
\* then update_progress(progress, total, current_item, faces_found) with all
\* four arguments and the run's one total, complete() or fail(message); a
\* request thread calls fail('Paused by user') or to_dict().
CallsOf(c) ==
    IF c = Worker
    THEN IF tk.started_at = 0
         THEN {[IdleCall EXCEPT !.m = "start", !.pc = 1]}
         ELSE {[IdleCall EXCEPT !.m = m, !.pc = 1] : m \in {"complete", "fail"}}
              \cup {[IdleCall EXCEPT !.m = "update_progress", !.pc = 1, !.u = nUpdates + 1,
                                     !.progress = p, !.total = n] :
                        p \in {q \in 0..MaxProgress : nUpdates < MaxUpdates},
                        n \in IF nUpdates = 0 THEN 0..MaxTotal ELSE {tk.total}}
    ELSE {[IdleCall EXCEPT !.m = m, !.pc = 1] : m \in {"fail", "to_dict"}}

\* with self.lock, entered without waiting for the lock.
AcquireLockUnguarded(c) ==
    /\ calls[c].m = "idle"
    /\ lock' = c
    /\ \E call \in CallsOf(c) :
        /\ calls' = [calls EXCEPT ![c] = call]
        /\ nUpdates' = IF call.m = "update_progress" THEN nUpdates + 1 ELSE nUpdates
    /\ UNCHANGED <<tk, now, snap>>
    /\ UNCHANGED <<nRemote, fate, status, taskRef, token, indexedPhotos, totalFaces, faces,
                   ckpt, nTasks, tasks, workers, cache, search, nDisturbed, matchVars, auxVars>>

\* A thread calls a method: with self.lock, the caller waits until the lock
\* is free and takes it.
AcquireLock(c) ==
    /\ calls[c].m = "idle"
    /\ lock = 0
    /\ lock' = c
    /\ \E call \in CallsOf(c) :
        /\ calls' = [calls EXCEPT ![c] = call]
        /\ nUpdates' = IF call.m = "update_progress" THEN nUpdates + 1 ELSE nUpdates
    /\ UNCHANGED <<tk, now, snap>>
    /\ UNCHANGED <<nRemote, fate, status, taskRef, token, indexedPhotos, totalFaces, faces,
                   ckpt, nTasks, tasks, workers, cache, search, nDisturbed, matchVars, auxVars>>

\* The end of a with self.lock block: the lock is released, the call returns.
Return(c) ==
    /\ lock' = 0
    /\ calls' = [calls EXCEPT ![c] = IdleCall]

\* start: status = 'running'; started_at = now.
start(c) ==
    /\ calls[c].m = "start"
    /\ \/ /\ calls[c].pc = 1
          /\ tk' = [tk EXCEPT !.status = "running"]
          /\ calls' = [calls EXCEPT ![c].pc = 2]
          /\ UNCHANGED lock
       \/ /\ calls[c].pc = 2
          /\ tk' = [tk EXCEPT !.started_at = now]
          /\ Return(c)
    /\ UNCHANGED <<nUpdates, now, snap>>
    /\ UNCHANGED <<nRemote, fate, status, taskRef, token, indexedPhotos, totalFaces, faces,
                   ckpt, nTasks, tasks, workers, cache, search, nDisturbed, matchVars, auxVars>>

\* update_progress: progress, total, current_item, then faces_found, one
\* assignment after the other.
update_progress(c) ==
    /\ calls[c].m = "update_progress"
    /\ \/ /\ calls[c].pc = 1
          /\ tk' = [tk EXCEPT !.progress = calls[c].progress, !.by.progress = calls[c].u]
          /\ calls' = [calls EXCEPT ![c].pc = 2]
          /\ UNCHANGED lock
       \/ /\ calls[c].pc = 2
          /\ tk' = [tk EXCEPT !.total = calls[c].total, !.by.total = calls[c].u]
          /\ calls' = [calls EXCEPT ![c].pc = 3]
          /\ UNCHANGED lock
       \/ /\ calls[c].pc = 3
          /\ tk' = [tk EXCEPT !.current_item = calls[c].u]
          /\ calls' = [calls EXCEPT ![c].pc = 4]
          /\ UNCHANGED lock
       \/ /\ calls[c].pc = 4
          /\ tk' = [tk EXCEPT !.faces_found = calls[c].u]
          /\ Return(c)
    /\ UNCHANGED <<nUpdates, now, snap>>
    /\ UNCHANGED <<nRemote, fate, status, taskRef, token, indexedPhotos, totalFaces, faces,
                   ckpt, nTasks, tasks, workers, cache, search, nDisturbed, matchVars, auxVars>>

\* complete: status = 'completed'.
complete(c) ==
    /\ calls[c].m = "complete"
    /\ calls[c].pc = 1
    /\ tk' = [tk EXCEPT !.status = "completed"]
    /\ Return(c)
    /\ UNCHANGED <<nUpdates, now, snap>>
    /\ UNCHANGED <<nRemote, fate, status, taskRef, token, indexedPhotos, totalFaces, faces,
                   ckpt, nTasks, tasks, workers, cache, search, nDisturbed, matchVars, auxVars>>

\* fail: status = 'failed'.
fail(c) ==
    /\ calls[c].m = "fail"
    /\ calls[c].pc = 1
    /\ tk' = [tk EXCEPT !.status = "failed"]
    /\ Return(c)
    /\ UNCHANGED <<nUpdates, now, snap>>
    /\ UNCHANGED <<nRemote, fate, status, taskRef, token, indexedPhotos, totalFaces, faces,
                   ckpt, nTasks, tasks, workers, cache, search, nDisturbed, matchVars, auxVars>>

\* to_dict: the ETA is computed first, then the dict is built field by
\* field; the dict is returned and nothing is assigned to the Task.
to_dict(c) ==
    /\ calls[c].m = "to_dict"
    /\ \/ /\ calls[c].pc = 1
          /\ calls' = [calls EXCEPT ![c].pc = 2, ![c].acc.eta = EtaSeconds(tk, now),
                                    ![c].acc.at = now]
          /\ UNCHANGED <<lock, snap>>
       \/ /\ calls[c].pc = 2
          /\ calls' = [calls EXCEPT ![c].pc = 3, ![c].acc.status = tk.status,
                                    ![c].acc.progress = tk.progress,
                                    ![c].acc.by.progress = tk.by.progress]
          /\ UNCHANGED <<lock, snap>>
       \/ /\ calls[c].pc = 3
          /\ calls' = [calls EXCEPT ![c].pc = 4, ![c].acc.total = tk.total,
                                    ![c].acc.by.total = tk.by.total]
          /\ UNCHANGED <<lock, snap>>
       \/ /\ calls[c].pc = 4
          /\ snap' = [calls[c].acc EXCEPT !.current_item = tk.current_item,
                                          !.faces_found = tk.faces_found,
                                          !.started_at = tk.started_at]
          /\ Return(c)
    /\ UNCHANGED <<tk, nUpdates, now>>
    /\ UNCHANGED <<nRemote, fate, status, taskRef, token, indexedPhotos, totalFaces, faces,
                   ckpt, nTasks, tasks, workers, cache, search, nDisturbed, matchVars, auxVars>>

\* datetime.now() moves on.
Tick ==
    /\ now < MaxTime
    /\ now' = now + 1
    /\ UNCHANGED <<tk, lock, calls, nUpdates, snap>>
    /\ UNCHANGED <<nRemote, fate, status, taskRef, token, indexedPhotos, totalFaces, faces,
                   ckpt, nTasks, tasks, workers, cache, search, nDisturbed, matchVars, auxVars>>

\* ------------------------------------------------------ download calls
\* One pass of for attempt in range(max_retries): get_media, the chunks, the
\* temp file; return its name, or on an exception sleep or raise.
DownloadAttempt ==
    /\ dl.pc = "try"
    /\ dl' = IF ~dl.fails[dl.attempt + 1]
             THEN [dl EXCEPT !.tries = @ + 1, !.pc = "returned", !.result = "file"]
             ELSE IF Retries(dl.attempt)
                  THEN [dl EXCEPT !.tries = @ + 1, !.pc = "sleep"]
                  ELSE [dl EXCEPT !.tries = @ + 1, !.pc = "raised", !.result = "error"]
    /\ UNCHANGED <<nRemote, fate, status, taskRef, token, indexedPhotos, totalFaces, faces,
                   ckpt, nTasks, tasks, workers, cache, search, nDisturbed, objVars, matchVars,
                   reported>>

\* time.sleep(2 ** attempt), then the next pass of the loop; after the last
\* pass the function returns None.
DownloadSleep ==
    /\ dl.pc = "sleep"
    /\ dl' = IF dl.attempt + 1 < max_retries
             THEN [dl EXCEPT !.waits = Append(@, 2 ^ dl.attempt), !.attempt = @ + 1, !.pc = "try"]
             ELSE [dl EXCEPT !.waits = Append(@, 2 ^ dl.attempt), !.attempt = @ + 1,
                             !.pc = "returned", !.result = "None"]
    /\ UNCHANGED <<nRemote, fate, status, taskRef, token, indexedPhotos, totalFaces, faces,
                   ckpt, nTasks, tasks, workers, cache, search, nDisturbed, objVars, matchVars,
                   reported>>

\* ------------------------------------------------------ matcher calls
CallFindMatches(q) ==
    /\ found' = [fn |-> "find_matches", q |-> q,
                 matches |-> find_matches(stored, score[q], tol)]
    /\ UNCHANGED <<stored, score, tol, objVars, auxVars>>
    /\ UNCHANGED <<nRemote, fate, status, taskRef, token, indexedPhotos, totalFaces, faces,
                   ckpt, nTasks, tasks, workers, cache, search, nDisturbed>>

CallFindMatchesCosine(q) ==
    /\ found' = [fn |-> "find_matches_cosine", q |-> q,
                 matches |-> find_matches_cosine(stored, score[q], tol)]
    /\ UNCHANGED <<stored, score, tol, objVars, auxVars>>
    /\ UNCHANGED <<nRemote, fate, status, taskRef, token, indexedPhotos, totalFaces, faces,
                   ckpt, nTasks, tasks, workers, cache, search, nDisturbed>>

CallBatchFindMatches(n) ==
    /\ found' = [fn |-> "batch_find_matches", q |-> n,
                 matches |-> batch_find_matches(stored, score, tol, n)]
    /\ UNCHANGED <<stored, score, tol, objVars, auxVars>>
    /\ UNCHANGED <<nRemote, fate, status, taskRef, token, indexedPhotos, totalFaces, faces,
                   ckpt, nTasks, tasks, workers, cache, search, nDisturbed>>

\* ----------------------------------------------------- process restart
\* The process dies and restarts: threads, the task store, the cache and open
\* transactions are gone; the database keeps what was committed.
Crash ==
    /\ nDisturbed < MaxDisturbances
    /\ nDisturbed' = nDisturbed + 1
    /\ tasks' = [t \in Tasks |-> NoTask]
    /\ workers' = [t \in Tasks |-> NoWorker]
    /\ cache' = NoEntry
    /\ search' = [s \in Searchers |-> IdleSearch]
    /\ UNCHANGED <<nRemote, fate, status, taskRef, token, indexedPhotos, totalFaces, faces,
                   ckpt, nTasks>>
    /\ UNCHANGED <<objVars, matchVars, auxVars>>

\* ------------------------------------------------------- specifications
Quiet == \A u \in Tasks : ~Active(u)

\* The web application: handlers, indexing threads, restarts; an event is
\* deleted while no thread works on it.  A search reads
\* table faces and writes only the cache, which no handler or thread reads:
\* searches run beside the threads in SpecCache.
Next ==
    \/ AddAsset
    \/ StartIndexing
    \/ StartIncremental
    \/ PauseIndexing
    \/ ResetEvent
    \/ GetCheckpointStatus
    \/ (Quiet /\ DeleteEvent)
    \/ \E t \in Tasks :
        \/ TaskStart(t)
        \/ LoadFull(t)
        \/ LoadIncremental(t)
        \/ LoadTokenExpired(t)
        \/ LoadFails(t)
        \/ ProcessPhoto(t)
        \/ UpdateCounters(t)
        \/ UpdateCountersFails(t)
        \/ FinalUpdate(t)
        \/ ClearCheckpoints(t)
        \/ InvalidateCache(t)
        \/ TaskComplete(t)
    \/ Crash

Spec == Init /\ [][Next]_vars

\* The web application with one search request at a time beside the indexing
\* threads (concurrent searches are in SpecSvcCache).
NextCache ==
    \/ AddAsset
    \/ StartIndexing
    \/ StartIncremental
    \/ \E t \in Tasks :
        \/ TaskStart(t)
        \/ LoadFull(t)
        \/ LoadIncremental(t)
        \/ LoadTokenExpired(t)
        \/ LoadFails(t)
        \/ ProcessPhoto(t)
        \/ UpdateCounters(t)
        \/ FinalUpdate(t)
        \/ ClearCheckpoints(t)
        \/ InvalidateCache(t)
        \/ TaskComplete(t)
    \/ SearchMiss(1)
    \/ SearchRead(1)
    \/ SearchInstall(1)

SpecCache == Init /\ [][NextCache]_vars

\* The services entry points, called one at a time.
NextSvc ==
    \/ AddAsset
    \/ (Quiet /\ CallRunFull)
    \/ (Quiet /\ CallRunIncremental)
    \/ \E t \in Tasks :
        \/ TaskStart(t)
        \/ CredentialsIncomplete(t)
        \/ LoadFull(t)
        \/ LoadIncremental(t)
        \/ LoadTokenExpired(t)
        \/ LoadFails(t)
        \/ ProcessPhoto(t)
        \/ UpdateCounters(t)
        \/ UpdateCountersFails(t)
        \/ FinalUpdate(t)
        \/ ClearCheckpoints(t)
        \/ TaskComplete(t)
    \/ Crash

SpecSvc == Init /\ [][NextSvc]_vars

\* The services entry points, called one at a time, with searches beside them.
NextSvcCache ==
    \/ AddAsset
    \/ (Quiet /\ CallRunFull)
    \/ (Quiet /\ CallRunIncremental)
    \/ \E t \in Tasks :
        \/ TaskStart(t)
        \/ LoadFull(t)
        \/ LoadIncremental(t)
        \/ LoadTokenExpired(t)
        \/ LoadFails(t)
        \/ ProcessPhoto(t)
        \/ UpdateCounters(t)
        \/ FinalUpdate(t)
        \/ ClearCheckpoints(t)
        \/ TaskComplete(t)
    \/ \E s \in Searchers :
        \/ SearchMiss(s)
        \/ SearchRead(s)
        \/ SearchInstall(s)

SpecSvcCache == Init /\ [][NextSvcCache]_vars

\* Runs of both implementations, one at a time and undisturbed; a thread that
\* can take a step of its loop eventually takes it.
NextRun ==
    \/ AddAsset
    \/ CheckNewPhotos
    \/ CheckNewPhotosTokenExpired
    \/ (Quiet /\ StartIndexing)
    \/ (Quiet /\ StartIncremental)
    \/ (Quiet /\ CallRunFull)
    \/ (Quiet /\ CallRunIncremental)
    \/ \E t \in Tasks :
        \/ TaskStart(t)
        \/ LoadFull(t)
        \/ LoadIncremental(t)
        \/ LoadTokenExpired(t)
        \/ LoadFails(t)
        \/ ProcessPhoto(t)
        \/ UpdateCounters(t)
        \/ UpdateCountersFails(t)
        \/ FinalUpdate(t)
        \/ ClearCheckpoints(t)
        \/ InvalidateCache(t)
        \/ TaskComplete(t)

SpecRun ==
    /\ Init
    /\ [][NextRun]_vars
    /\ WF_vars(\E t \in Tasks : ProcessPhoto(t) \/ UpdateCounters(t) \/ FinalUpdate(t))

\* Every step a thread of an indexing run can take.
WorkerStep(t) ==
    \/ TaskStart(t)
    \/ LoadFull(t)
    \/ LoadIncremental(t)
    \/ LoadTokenExpired(t)
    \/ LoadFails(t)
    \/ HandlerUpdateFails(t)
    \/ ProcessPhoto(t)
    \/ UpdateCounters(t)
    \/ UpdateCountersFails(t)
    \/ FinalUpdate(t)
    \/ ClearCheckpoints(t)
    \/ InvalidateCache(t)
    \/ TaskComplete(t)

\* Runs of both implementations, one at a time, in which every call returns or
\* raises: a started thread keeps taking steps until it ends.
NextLive ==
    \/ AddAsset
    \/ (Quiet /\ StartIndexing)
    \/ (Quiet /\ StartIncremental)
    \/ (Quiet /\ CallRunFull)
    \/ (Quiet /\ CallRunIncremental)
    \/ \E t \in Tasks : WorkerStep(t)

SpecLive ==
    /\ Init
    /\ [][NextLive]_vars
    /\ \A t \in Tasks : WF_vars(WorkerStep(t))

\* Full runs over a fixed folder, one at a time, with restarts; each photo has
\* one fixed outcome in the pipeline, and all runs are the web application's
\* (then taskRef # 0) or all are the services entry point's (taskRef = 0).
InitResume ==
    /\ InitCommon
    /\ nRemote \in 0..NAssets
    /\ fate \in [Assets -> Outcomes]
    /\ \A a \in Assets : fate[a] = "dbfail" => FacesIn(a) > 0

NextResume ==
    \/ (Quiet /\ (nTasks = 0 \/ taskRef # 0) /\ StartIndexing)
    \/ (Quiet /\ taskRef = 0 /\ CallRunFull)
    \/ \E t \in Tasks :
        \/ TaskStart(t)
        \/ LoadFull(t)
        \/ ProcessPhoto(t)
        \/ UpdateCounters(t)
        \/ FinalUpdate(t)
        \/ ClearCheckpoints(t)
        \/ InvalidateCache(t)
        \/ TaskComplete(t)
    \/ Crash

SpecResume == InitResume /\ [][NextResume]_vars

\* The matcher on every cache entry of up to MaxRows face rows, every
\* distance (or similarity) vector and every tolerance (or threshold).
Photos == 1..MaxFolder
Queries == 1..NQueries

InitMatch ==
    /\ InitEvent
    /\ TaskInit
    /\ nRemote = 0
    /\ fate = [a \in Assets |-> "any"]
    /\ stored \in UNION {[1..n -> Photos] : n \in 0..MaxRows}
    /\ score \in [Queries -> [1..Len(stored) -> 0..MaxScore]]
    /\ tol \in 0..MaxScore
    /\ found = NoResult
    /\ dl = NoDownload
    /\ reported = {}

NextMatch ==
    \/ \E q \in Queries : CallFindMatches(q)
    \/ \E q \in Queries : CallFindMatchesCosine(q)
    \/ \E n \in 0..NQueries : CallBatchFindMatches(n)

SpecMatch == InitMatch /\ [][NextMatch]_vars

\* One call of download_image_temp or download_image_from_drive, for every
\* photo and every way its attempts can fail.
InitDownload ==
    /\ InitEvent
    /\ TaskInit
    /\ MatchIdle
    /\ nRemote = 0
    /\ fate = [a \in Assets |-> "any"]
    /\ \E fn \in {"download_image_temp", "download_image_from_drive"}, a \in Assets,
          f \in [1..max_retries -> BOOLEAN] :
            dl = [NoDownload EXCEPT !.pc = "try", !.fn = fn, !.photo = a, !.fails = f]
    /\ reported = {}

NextDownload ==
    \/ DownloadAttempt
    \/ DownloadSleep

SpecDownload == InitDownload /\ [][NextDownload]_vars

\* One Task object and the threads that call its methods: the worker (start,
\* update_progress, complete, fail) and the request threads (fail on pause,
\* to_dict on every status poll).
InitTask ==
    /\ InitCommon
    /\ nRemote = 0
    /\ fate = [a \in Assets |-> "any"]

NextTask ==
    \/ \E c \in Callers :
        \/ AcquireLock(c)
        \/ start(c)
        \/ update_progress(c)
        \/ complete(c)
        \/ fail(c)
        \/ to_dict(c)
    \/ Tick

SpecTask == InitTask /\ [][NextTask]_vars

\* The process dies after a photo's checkpoint is committed and before the
\* UPDATE of the counters for that photo is.
CrashBeforeCounters ==
    /\ \E t \in Tasks : workers[t].pc = "counter"
    /\ Crash

\* Runs over a fixed folder of photos that all go through the pipeline without
\* an error, one run at a time; the only disturbance is a restart between a
\* checkpoint and its counter update.
InitCrash ==
    /\ InitCommon
    /\ nRemote \in 1..MaxFolder
    /\ fate = [a \in Assets |-> "ok"]

NextCrash ==
    \/ (Quiet /\ StartIndexing)
    \/ (Quiet /\ StartIncremental)
    \/ (Quiet /\ CallRunFull)
    \/ (Quiet /\ CallRunIncremental)
    \/ \E t \in Tasks :
        \/ TaskStart(t)
        \/ LoadFull(t)
        \/ LoadIncremental(t)
        \/ ProcessPhoto(t)
        \/ UpdateCounters(t)
        \/ FinalUpdate(t)
        \/ ClearCheckpoints(t)
        \/ InvalidateCache(t)
        \/ TaskComplete(t)
    \/ CrashBeforeCounters

SpecCrash == InitCrash /\ [][NextCrash]_vars

\* ================================================================ claims

\* C1: in an incremental run the page token is saved only after the checkpoint
\* of every photo found by that fetch is written: the stored token never lies
\* past a photo the run still has to process that has neither a checkpoint nor
\* a row in faces.
C1_TokenAfterCheckpoints ==
    \A t \in Tasks :
        workers[t].mode = "incr" =>
            \A a \in workers[t].todo :
                (token # 0 /\ a < token) => (Len(ckpt[a]) > 0 \/ faces[a] > 0)

\* C2: a photo whose download fails on every attempt gets no checkpoint and is
\* not counted as indexed.
C2_DownloadFailureNotCheckpointed ==
    [][\A t \in Tasks, a \in Assets :
        (workers[t].out[a] = "none" /\ workers'[t].out[a] = "dlfail") =>
            (ckpt'[a] = ckpt[a] /\ workers'[t].indexed = workers[t].indexed)]_vars

\* C3: a photo the extractor fails on gets a checkpoint with faces_found = 0.
C3_ExtractorFailureCheckpointed ==
    [][\A t \in Tasks, a \in Assets :
        (workers[t].out[a] = "none" /\ workers'[t].out[a] = "exfail") =>
            (ckpt'[a] = Append(ckpt[a], 0))]_vars

\* C4: after a full run has completed, a later full run over the same folder
\* (every photo processed without a fault) puts no photo through the pipeline:
\* no new row in faces, no new checkpoint.
C4_SecondFullRunIsNoOp ==
    (\A a \in Assets : fate[a] = "ok") =>
        \A t1 \in Tasks, t2 \in Tasks :
            (t1 < t2 /\ tasks[t1].status = "completed") => Did(t2) = {}

\* C5: a full run that resumes from k checkpoints (after a restart) processes
\* exactly the n - k photos of the folder without a checkpoint and ends Completed
\* with the indexed_photos and total_faces of an uninterrupted full run: every
\* counted photo once, with the rows its pipeline inserts.
C5_ResumeTotals ==
    \A t \in Tasks :
        workers[t].pc = "clear" =>
            LET v == workers[t].variant
                counted == {a \in ListFiles : Counted(v, fate[a])}
            IN /\ status = "Completed"
               /\ Did(t) = ListFiles \ workers[t].processed
               /\ indexedPhotos = Cardinality(counted)
               /\ totalFaces = SumOver([a \in Assets |-> Inserted(fate[a], a)], counted)

\* C6: at most one checkpoint row per photo of the event.
C6_OneCheckpointPerAsset == \A a \in Assets : Len(ckpt[a]) <= 1

\* C7: while a run is in its loop, every photo whose per-photo step finished
\* (extraction failed, faces persisted, or persisting failed part-way) has a
\* checkpoint whose faces_found is the number of its rows the run has committed.
C7_CheckpointExact ==
    \A t \in Tasks :
        workers[t].pc \in {"loop", "counter"} =>
            \A a \in Assets :
                workers[t].out[a] \in {"ok", "exfail", "dbfail"} =>
                    /\ Len(ckpt[a]) >= 1
                    /\ GetCheckpoints[a] = workers[t].ins[a] - workers[t].tx[a]

\* C8: once its task has been paused, a worker between two photos starts no
\* further photo and never goes on to set Completed and clear the checkpoints.
C8_PausedWorkerStops ==
    [][\A t \in Tasks :
        (tasks[t].error = "Paused by user" /\ workers[t].pc = "loop") =>
            /\ workers'[t].pc # "clear"
            /\ (workers'[t].out = workers[t].out \/ workers'[t].pc = "none")]_vars

\* C9: at most one indexing worker is active for the event.
C9_OneWorkerPerCollection == Cardinality({t \in Tasks : Active(t)}) <= 1

\* C10: once a run has completed (and invalidated the cache) and no run is
\* active, a cache entry lists exactly the rows of faces: no entry read before
\* the run's last insert is installed after the invalidation.
C10_NoStaleEntryAfterRun ==
    (Quiet /\ cache.present /\ \E t \in Tasks : tasks[t].status = "completed") =>
        cache.rows = faces

\* C11: concurrent searches that miss the cache load the event's rows at most
\* once: at most one search is between its miss and its install, the others
\* wait for that entry.
C11_SingleLoadInFlight == Cardinality({s \in Searchers : search[s].pc # "idle"}) <= 1

\* C12: every operation that changes the rows of faces invalidates the cache
\* entry: with no run active and no load in flight, a present entry lists
\* exactly the rows of faces.
C12_EntryMatchesStorage ==
    (Quiet /\ cache.present /\ \A s \in Searchers : search[s].pc = "idle") =>
        cache.rows = faces

\* C13: a run with at least one photo in scope that reaches its successful end
\* has left status Completed, no checkpoint, and no cache entry older than its
\* inserts.
C13_SuccessfulEndState ==
    \A t \in Tasks :
        (workers[t].pc = "complete" /\ workers[t].total > 0) =>
            /\ status = "Completed"
            /\ \A a \in Assets : ckpt[a] = <<>>
            /\ cache.present => cache.rows = faces

\* C14: the invalidation precedes the completion signal: when the only run so
\* far has set Completed, or its task is completed, no cache entry read before
\* the run's last insert is present.
C14_InvalidateBeforeCompleted ==
    (/\ nTasks = 1
     /\ status = "Completed" \/ tasks[1].status = "completed"
     /\ cache.present) => cache.rows = faces

C17_ExpiredTokenRebootstraps ==
    [][\A t \in Tasks :
        (LoadTokenExpired(t) /\ \A u \in Tasks \ {t} : ~Active(u)) =>
            \A a \in ListFiles :
                (faces[a] = 0 /\ Len(ckpt[a]) = 0) => a \in workers'[t].todo]_vars

\* C18: a full run has every photo of the folder in its scope: checkpointed
\* before, processed, or still to process.
C18_FullRunCoversFolder ==
    \A t \in Tasks :
        (workers[t].mode = "full" /\ workers[t].pc \in {"loop", "counter", "clear"}) =>
            ListFiles \subseteq (workers[t].processed \cup workers[t].todo \cup Did(t))

\* C19: the first full run on a fresh event over n photos, none of them
\* failing, has at its end one checkpoint per photo, indexed_photos = n,
\* total_faces = the faces of the n photos, and faces holds total_faces rows.
C19_FreshFullRunTotals ==
    (/\ \A a \in Assets : fate[a] = "ok"
     /\ nDisturbed = 0
     /\ workers[1].pc = "clear") =>
        /\ \A a \in ListFiles : Len(ckpt[a]) = 1
        /\ indexedPhotos = nRemote
        /\ totalFaces = SumOver([a \in Assets |-> FacesIn(a)], ListFiles)
        /\ SumOver(faces, Assets) = totalFaces

\* C20: an incremental run with a stored token that finds no new photo sets
\* Completed and completes its task, and leaves the counters, faces, the
\* checkpoints and the cache entry as they were.
C20_NoNewPhotosFrame ==
    [][\A t \in Tasks :
        /\ (/\ workers[t].mode = "incr"
            /\ workers[t].pc = "load"
            /\ token # 0
            /\ workers'[t].pc = "complete") =>
                /\ status' = "Completed"
                /\ UNCHANGED <<indexedPhotos, totalFaces, faces, ckpt, cache>>
        /\ (/\ workers[t].mode = "incr"
            /\ workers[t].pc = "complete"
            /\ workers[t].total = 0
            /\ workers'[t].pc = "done") =>
                /\ tasks'[t].status = "completed"
                /\ UNCHANGED <<status, indexedPhotos, totalFaces, faces, ckpt, cache>>]_vars

\* C20 witness: after an incremental run has completed (the token is stored), a
\* second one has found no new photo and set Completed, with rows in faces and
\* a cache entry in place.
C20_Witness ==
    /\ workers[1].pc = "done"
    /\ workers[1].mode = "incr"
    /\ tasks[1].status = "completed"
    /\ workers[2].pc = "complete"
    /\ workers[2].mode = "incr"
    /\ workers[2].total = 0
    /\ token # 0
    /\ status = "Completed"
    /\ cache.present
    /\ cache.rows = faces

\* C21: indexing_status changes only along Not Started -> In Progress,
\* In Progress -> Completed, In Progress -> Failed, In Progress -> Paused,
\* Failed -> In Progress and Paused -> In Progress, whatever the start, pause,
\* reset and worker steps.
C21_StatusTransitions ==
    [][(status' # status /\ status' # "Deleted") =>
        <<status, status'>> \in {<<"Not Started", "In Progress">>,
                                 <<"In Progress", "Completed">>,
                                 <<"In Progress", "Failed">>,
                                 <<"In Progress", "Paused">>,
                                 <<"Failed", "In Progress">>,
                                 <<"Paused", "In Progress">>}]_vars

\* C28: after delete_event no row of faces and no checkpoint row of the event
\* remains.
C28_DeleteLeavesNothing ==
    status = "Deleted" => (faces = Zero /\ \A a \in Assets : ckpt[a] = <<>>)

\* C29: an exception raised while a photo is processed never ends the run: a
\* worker in its loop leaves it only by the final update that sets Completed.
C29_PhotoErrorDoesNotEndRun ==
    [][\A t \in Tasks :
        (workers[t].pc \in {"loop", "counter"}) =>
            (workers'[t].pc \in {"loop", "counter", "clear"})]_vars

\* C30: a failed checkpoint write raises nothing: the worker goes on to the
\* counter update with its task and the event status untouched.
C30_CheckpointFailureNonFatal ==
    [][\A t \in Tasks, a \in Assets :
        (workers[t].out[a] = "none" /\ workers'[t].out[a] = "ckfail") =>
            /\ workers'[t].pc = "counter"
            /\ tasks'[t] = tasks[t]
            /\ status' = status
            /\ ckpt' = ckpt]_vars

\* C30 witness: a run has set Completed and counted a photo whose checkpoint
\* write failed.
C30_Witness ==
    \E t \in Tasks :
        /\ workers[t].pc = "clear"
        /\ status = "Completed"
        /\ indexedPhotos > 0
        /\ \E a \in Assets : workers[t].out[a] = "ckfail" /\ ckpt[a] = <<>>
\* C22: every dict returned by to_dict holds a progress, a total, a
\* current_item and a faces_found that one and the same update_progress call
\* wrote (or that are all still the initial ones), whatever start,
\* update_progress, complete and fail calls run beside it.
C22_SnapshotFromOneUpdate ==
    snap.status # "none" =>
        /\ snap.by.progress = snap.by.total
        /\ snap.by.total = snap.current_item
        /\ snap.current_item = snap.faces_found

\* C22 witness: a dict was returned after the first update_progress call, and
\* the second call is half-way through its assignments.
C22_Witness ==
    /\ snap.status = "running"
    /\ snap.by.progress = 1
    /\ snap.faces_found = 1
    /\ tk.by.progress = 2
    /\ tk.faces_found = 1

\* C23: the dict carries an ETA exactly when its status is running and its
\* progress is above zero; the ETA is (elapsed / progress) * (total -
\* progress) without its fraction, elapsed being the time from started_at to
\* the moment of the to_dict call; and a to_dict call assigns nothing to the
\* Task.
C23_EtaAtSnapshot ==
    /\ [](snap.status # "none" =>
            /\ snap.eta.has <=> (snap.status = "running" /\ snap.progress > 0)
            /\ snap.eta.has =>
                    LET x == (snap.at - snap.started_at) * (snap.total - snap.progress)
                        e == snap.eta.v
                    IN  /\ x >= 0 => (e * snap.progress <= x /\ x < (e + 1) * snap.progress)
                        /\ x < 0 => (e * snap.progress >= x /\ x > (e - 1) * snap.progress))
    /\ [][\A c \in Callers : (calls[c].m = "to_dict" /\ calls'[c] # calls[c]) => tk' = tk]_vars

\* C23 witness: a running task at 2 of 3, three ticks after its start: the
\* ETA is 1, the whole part of 3/2.
C23_Witness ==
    /\ snap.status = "running"
    /\ snap.eta.has
    /\ snap.eta.v = 1
    /\ snap.progress = 2
    /\ snap.total = 3
    /\ snap.at # snap.started_at + 2


\* The face rows of a photo in the searched entry, and the entries a photo
\* has in the returned list.
RowsOf(p) == {i \in DOMAIN stored : stored[i] = p}

EntriesOf(p) == {i \in DOMAIN found.matches : found.matches[i].photo_id = p}

\* C24: find_matches keeps a row whose distance equals the tolerance and
\* returns no distance above the tolerance; find_matches_cosine keeps a row
\* whose similarity equals the threshold and returns no similarity below it.
C24_BoundaryIncluded ==
    /\ found.fn = "find_matches" =>
        /\ \A i \in DOMAIN stored : score[found.q][i] = tol => EntriesOf(stored[i]) # {}
        /\ \A k \in DOMAIN found.matches :
            /\ found.matches[k].distance <= tol
            /\ \E i \in RowsOf(found.matches[k].photo_id) :
                    score[found.q][i] = found.matches[k].distance
    /\ found.fn = "find_matches_cosine" =>
        /\ \A i \in DOMAIN stored : score[found.q][i] = tol => EntriesOf(stored[i]) # {}
        /\ \A k \in DOMAIN found.matches :
            /\ found.matches[k].similarity >= tol
            /\ \E i \in RowsOf(found.matches[k].photo_id) :
                    score[found.q][i] = found.matches[k].similarity

\* C24 witness: find_matches has returned a photo whose only row lies exactly
\* at the tolerance, and left out a photo whose row lies above it.
C24_Witness ==
    /\ found.fn = "find_matches"
    /\ tol = 1
    /\ \E p, r \in Photos :
        /\ RowsOf(p) # {} /\ RowsOf(r) # {}
        /\ \A i \in RowsOf(p) : score[found.q][i] = tol
        /\ \A i \in RowsOf(r) : score[found.q][i] > tol
        /\ EntriesOf(p) # {}
        /\ EntriesOf(r) = {}

\* C25: find_matches returns, for every photo with a row within the
\* tolerance, exactly one entry, whose distance is the least distance of that
\* photo's rows, and no entry for any other photo.
C25_OneEntryPerAsset ==
    found.fn = "find_matches" =>
        \A p \in Photos :
            IF \E i \in RowsOf(p) : score[found.q][i] <= tol
            THEN /\ Cardinality(EntriesOf(p)) = 1
                 /\ \A k \in EntriesOf(p) :
                    /\ \A i \in RowsOf(p) : found.matches[k].distance <= score[found.q][i]
                    /\ \E i \in RowsOf(p) : found.matches[k].distance = score[found.q][i]
            ELSE EntriesOf(p) = {}

\* C25 witness: a photo with two rows within the tolerance, the later one
\* closer, is returned once.
C25_Witness ==
    /\ found.fn = "find_matches"
    /\ \E p \in Photos : \E i, j \in RowsOf(p) :
        /\ i < j
        /\ score[found.q][j] < score[found.q][i]
        /\ score[found.q][i] <= tol
        /\ \E k \in EntriesOf(p) : found.matches[k].distance = score[found.q][j]

\* C26: the list of find_matches is in order of non-decreasing distance, the
\* list of find_matches_cosine in order of non-increasing similarity.
C26_Sorted ==
    /\ found.fn = "find_matches" =>
        \A k \in DOMAIN found.matches : k > 1 =>
            found.matches[k - 1].distance <= found.matches[k].distance
    /\ found.fn = "find_matches_cosine" =>
        \A k \in DOMAIN found.matches : k > 1 =>
            found.matches[k - 1].similarity >= found.matches[k].similarity

\* C26 witness: find_matches has returned two photos, the closer one first
\* although its row comes later in the entry.
C26_Witness ==
    /\ found.fn = "find_matches"
    /\ Len(found.matches) = 2
    /\ found.matches[1].distance < found.matches[2].distance
    /\ \A i \in RowsOf(found.matches[1].photo_id), j \in RowsOf(found.matches[2].photo_id) :
            j < i

\* C27: batch_find_matches returns, for every photo that a query vector
\* matches, exactly one entry, whose distance is the least over all query
\* vectors and all rows of that photo, and no entry for any other photo.
C27_BatchMinimum ==
    found.fn = "batch_find_matches" =>
        \A p \in Photos :
            IF \E q \in 1..found.q, i \in RowsOf(p) : score[q][i] <= tol
            THEN /\ Cardinality(EntriesOf(p)) = 1
                 /\ \A k \in EntriesOf(p) :
                    /\ \A q \in 1..found.q, i \in RowsOf(p) :
                            found.matches[k].distance <= score[q][i]
                    /\ \E q \in 1..found.q, i \in RowsOf(p) :
                            found.matches[k].distance = score[q][i]
            ELSE EntriesOf(p) = {}

\* C27 witness: a batch of two query vectors both matching one photo, the
\* second one closer; the entry carries the second one's distance.
C27_Witness ==
    /\ found.fn = "batch_find_matches"
    /\ found.q = 2
    /\ \E p \in Photos : \E i, j \in RowsOf(p) :
        /\ score[1][i] <= tol
        /\ score[2][j] < score[1][i]
        /\ \A r \in RowsOf(p) : score[1][r] >= score[1][i] /\ score[2][r] >= score[2][j]
        /\ \E k \in EntriesOf(p) : found.matches[k].distance = score[2][j]



\* C31: after a restart between a photo's checkpoint and its counter update,
\* the next run that completes leaves indexed_photos and total_faces at the
\* values of an uninterrupted run: every photo of the folder counted once,
\* with its faces.
C31_CountersHealAfterCrash ==
    (status = "Completed" /\ Quiet) =>
        /\ indexedPhotos = nRemote
        /\ totalFaces = SumOver([a \in Assets |-> FacesIn(a)], 1..nRemote)


\* C32: a services run called with incomplete credentials is rejected with
\* its task never started and the event record, the checkpoints, the face
\* rows and the cache as they were.
C32_RejectionChangesNothing ==
    [][\A t \in Tasks :
        (tasks[t].error # "credentials" /\ tasks'[t].error = "credentials") =>
            /\ tasks[t].status = "pending"
            /\ UNCHANGED <<status, taskRef, token, indexedPhotos, totalFaces, faces, ckpt,
                           cache>>]_vars


\* C33: a download makes at most max_retries attempts, sleeps 1 second after
\* the first failed attempt and 2 after the second and never after the last,
\* and ends by returning a file after an attempt that succeeded or by raising
\* after max_retries failed attempts.
C33_BoundedRetries ==
    /\ dl.tries <= max_retries
    /\ dl.waits \in {<<>>, <<1>>, <<1, 2>>}
    /\ dl.pc = "try" => Len(dl.waits) = dl.tries
    /\ dl.pc = "returned" =>
        /\ dl.result = "file"
        /\ ~dl.fails[dl.tries]
        /\ Len(dl.waits) = dl.tries - 1
    /\ dl.pc = "raised" =>
        /\ dl.tries = max_retries
        /\ \A i \in 1..max_retries : dl.fails[i]
        /\ Len(dl.waits) = max_retries - 1

\* C33 witness: the third attempt succeeded after two failures and two sleeps.
C33_Witness ==
    /\ dl.pc = "returned"
    /\ dl.tries = max_retries
    /\ dl.waits = <<1, 2>>
    /\ dl.result = "file"


\* C34: an event paused in the middle of a run, with at least one checkpoint,
\* is reported by get_checkpoint_status with can_resume true.
C34_PausedIsResumable ==
    (status = "Paused" /\ taskRef # 0 /\ CkptIds # {}) => CanResume


\* C35: check_new_photos never saves a page token beyond a photo it counted
\* as new: every photo of its reply is among the photos the next incremental
\* run finds with the saved token.
C35_CheckKeepsNewPhotosInScope ==
    [][(CheckNewPhotos \/ CheckNewPhotosTokenExpired) =>
            reported' \subseteq DeltaPhotos(token')]_vars


\* C36: a task that is completed or failed keeps that status for as long as
\* the task store holds it: a task failed by pause_indexing is never marked
\* completed by its thread.
C36_TerminalTaskStatusIsFinal ==
    [][\A t \in Tasks :
        (tasks[t].status \in {"completed", "failed"} /\ tasks'[t].status # "none") =>
            tasks'[t].status = tasks[t].status]_vars


\* C37: after any sequence of undisturbed full and incremental runs, a
\* Completed event with no run under way has total_faces equal to the number
\* of its face rows, and no photo has more rows than it shows faces.
C37_TotalFacesMatchesRows ==
    (nDisturbed = 0 /\ status = "Completed" /\ Quiet) =>
        /\ totalFaces = SumOver(faces, Assets)
        /\ \A a \in Assets : faces[a] <= FacesIn(a)


\* C38: an incremental run that follows a completed run takes no photo that
\* run already counted: what it starts from (the stored indexed_photos) and
\* what it sets out to process together never exceed the photos of the folder.
C38_IncrementalSkipsProcessed ==
    [][\A t \in Tasks :
        (/\ t > 1
         /\ tasks[t - 1].status = "completed"
         /\ workers[t].mode = "incr"
         /\ workers[t].pc = "load"
         /\ workers'[t].pc = "loop") =>
            workers'[t].indexed + Cardinality(workers'[t].todo) <= nRemote]_vars


\* C40: when a run that went through all its photos completes its task, the
\* task's progress equals its total.
C40_CompletedProgressIsTotal ==
    [][\A t \in Tasks :
        (tasks[t].status # "completed" /\ tasks'[t].status = "completed") =>
            workers[t].progress = workers[t].total]_vars


\* C39: every started thread eventually brings its task to completed or
\* failed, and at that moment the event is not left In Progress.
C39_WorkerEndsAndReleasesEvent ==
    /\ \A t \in Tasks :
        (tasks[t].status \in {"pending", "running"}) ~>
            (tasks[t].status \in {"completed", "failed"})
    /\ [][\A t \in Tasks :
            (/\ tasks[t].status \in {"pending", "running"}
             /\ tasks'[t].status \in {"completed", "failed"}) =>
                status' # "In Progress"]_vars

====
